---------------------------- MODULE Spec2Model ----------------------------
(***************************************************************************)
(* Model of lib/cretonne/meta/cdsl/isa.py: TargetISA, CPUMode, EncRecipe  *)
(* and Encoding.  Objects live in heaps (sequences); an object's identity  *)
(* is its index in its heap, which is what Python's default hash/equality  *)
(* of these classes compares.                                              *)
(***************************************************************************)
EXTENDS Integers, Sequences, FiniteSets, TLC

VARIABLES
    recipes,      \* heap of EncRecipe objects, identity = index
    preds,        \* heap of And predicate nodes built by And.combine
    prednum,      \* PredNode.number of every predicate object
    cpumodes,     \* TargetISA.cpumodes; a mode is its list of encodings
    regbanks,     \* TargetISA.regbanks; a bank is the list of its classes' indices
    settings,     \* TargetISA.settings
    all_recipes,  \* TargetISA.all_recipes
    all_instps,   \* TargetISA.all_instps
    call,         \* the operation executed last, with its arguments
    err           \* how that operation ended: "none" or the error raised

vars == <<recipes, preds, prednum, cpumodes, regbanks, settings,
          all_recipes, all_instps, call, err>>

-----------------------------------------------------------------------------
(* Bounds of the model *)

MaxObjects == 6    \* recipes, CPU modes and encodings of an ISA, all together
MaxBanks == 3      \* register banks of an ISA
MaxClasses == 2    \* register classes of a bank
MaxTried == 1      \* objects constructed from arbitrary arguments

-----------------------------------------------------------------------------
(* Python values *)

\* `None` as the value of a predicate reference.
NoPred == 0
\* `None` as the value of a `number` / `index` field.
Unset == -1

Truthy(p) == p # NoPred

Range(s) == {s[i] : i \in 1..Len(s)}

-----------------------------------------------------------------------------
(* Collaborators consumed by isa.py: formats, instructions, predicates *)

Unary  == [name |-> "Unary",  num_value_operands |-> 1, has_value_list |-> FALSE]
Binary == [name |-> "Binary", num_value_operands |-> 2, has_value_list |-> FALSE]
Call   == [name |-> "Call",   num_value_operands |-> 0, has_value_list |-> TRUE]

\* Instructions: the three fields Encoding.__init__ reads, and the type
\* variables `fully_bound()` resolves.
iadd == [name |-> "iadd", format |-> Binary, is_branch |-> FALSE, typevars |-> <<"i32">>]
brif == [name |-> "brif", format |-> Binary, is_branch |-> TRUE,  typevars |-> <<"i32">>]
call_ == [name |-> "call", format |-> Call,   is_branch |-> FALSE, typevars |-> <<>>]
jump == [name |-> "jump", format |-> Call,   is_branch |-> TRUE,  typevars |-> <<>>]

\* Leaf predicate objects that exist before any encoding is built.  P1, P2
\* and Q are instruction predicates over Binary, PC one over Call, S1 and
\* S2 are ISA (settings) predicates.
P1 == 1
P2 == 2
Q  == 3
PC == 4
S1 == 5
S2 == 6
NumAtoms == 6
Atoms == 1..NumAtoms

\* PredNode.predicate_context() of a leaf predicate.
PredContext(p) == IF p \in {P1, P2, Q} THEN Binary
                  ELSE IF p = PC THEN Call
                  ELSE [name |-> "settings", num_value_operands |-> 0,
                        has_value_list |-> FALSE]

\* And.combine(a, b) on the heap h of And nodes: an absent operand is the
\* identity, two present operands give a new conjunction node.
AndCombine(a, b, h) ==
    IF ~Truthy(a) /\ ~Truthy(b) THEN [p |-> NoPred, heap |-> h]
    ELSE IF ~Truthy(b) THEN [p |-> a, heap |-> h]
    ELSE IF ~Truthy(a) THEN [p |-> b, heap |-> h]
    ELSE [p |-> NumAtoms + Len(h) + 1, heap |-> Append(h, <<a, b>>)]

-----------------------------------------------------------------------------
(* Operand constraints *)

IntC(n)  == [kind |-> "int", val |-> n]
GPR      == [kind |-> "RegClass", val |-> 0]
R0       == [kind |-> "Register", val |-> 0]
Junk     == [kind |-> "str", val |-> 0]

IsInt(c) == c.kind = "int"

\* The argument `ins` / `outs`: a tuple of constraints, or one constraint.
Tup(s)    == [tuple |-> TRUE, value |-> s]
Single(c) == [tuple |-> FALSE, value |-> c]

\* EncRecipe._verify_constraints, lines 217-218: `seq = (seq,)` unless
\* seq is a tuple already.
Normal(seq) == IF seq.tuple THEN seq.value ELSE <<seq.value>>

\* Faulty variant: a tied operand is not compared with num_value_operands.
ConstraintOKNoUpper(c, format) ==
    IF IsInt(c) THEN c.val >= 0
    ELSE c.kind \in {"RegClass", "Register"}

\* EncRecipe._verify_constraints, lines 220-227: do the asserts on one
\* constraint pass?
ConstraintOK(c, format) ==
    IF IsInt(c)
    THEN /\ c.val >= 0
         /\ (~format.has_value_list => c.val < format.num_value_operands)
    ELSE c.kind \in {"RegClass", "Register"}

\* EncRecipe._verify_constraints, lines 219-228: the loop over the sequence.
VerifyOK(s, format) == \A i \in 1..Len(s) : ConstraintOK(s[i], format)

\* assert size >= 0, line 197
SizeOK(size) == size >= 0

\* EncRecipe.__init__: the first assert that fails, in execution order,
\* or "none".  All are plain `assert` statements; the names are those of
\* the error taxonomy.
RecipeError(format, size, ins, outs, instp) ==
    IF ~SizeOK(size) THEN "SizeError"
    ELSE IF Truthy(instp) /\ PredContext(instp) # format THEN "PredicateContextError"
    ELSE IF ~VerifyOK(Normal(ins), format) THEN "ConstraintError"
    ELSE IF ~format.has_value_list /\ Len(Normal(ins)) # format.num_value_operands
         THEN "ArityError"
    ELSE IF ~VerifyOK(Normal(outs), format) THEN "ConstraintError"
    ELSE "none"

\* The object EncRecipe.__init__ leaves behind when no assert fails.
NewRecipe(name, format, size, ins, outs, branch_range, instp, isap) ==
    [name |-> name, format |-> format, size |-> size,
     branch_range |-> branch_range, instp |-> instp, isap |-> isap,
     number |-> Unset, ins |-> Normal(ins), outs |-> Normal(outs)]

\* `branch_range`: None, or a sequence of integers.
NoRange == [none |-> TRUE, val |-> <<>>]
BranchRange(origin, bits) == [none |-> FALSE, val |-> <<origin, bits>>]
RangeTruthy(br) == ~br.none /\ Len(br.val) > 0

-----------------------------------------------------------------------------
(* Encoding.__init__ *)

\* The instruction argument: a fully bound instruction, or an Apply node
\* whose concrete operands imply the predicate `implied` (possibly None).
Bound(inst)            == [apply |-> FALSE, inst |-> inst, implied |-> NoPred]
Applied(inst, implied) == [apply |-> TRUE,  inst |-> inst, implied |-> implied]

\* Faulty variant: the formats are not compared.
EncodingErrorNoFormat(inst, recipe) ==
    IF inst.is_branch /\ ~RangeTruthy(recipe.branch_range) THEN "BranchRangeError"
    ELSE "none"

\* Faulty variant: a branch is not asked for a branch_range.
EncodingErrorNoBranch(inst, recipe) ==
    IF inst.format # recipe.format THEN "FormatMismatchError"
    ELSE "none"

\* Lines 269-276: the first assert that fails, or "none".  Both are plain
\* `assert` statements; the names are those of the error taxonomy.
EncodingError(inst, recipe) ==
    IF inst.format # recipe.format THEN "FormatMismatchError"
    ELSE IF inst.is_branch /\ ~RangeTruthy(recipe.branch_range) THEN "BranchRangeError"
    ELSE "none"

\* Lines 261-262: the instruction predicate after looking at `inst`.
CallerInstp(spec, instp, h) ==
    IF spec.apply THEN AndCombine(instp, spec.implied, h)
    ELSE [p |-> instp, heap |-> h]

\* Line 281: the stored instruction predicate, with the heap of And nodes
\* after the combination.
StoredInstp(r, instp, h) == AndCombine(recipes[r].instp, instp, h)

\* Faulty variant: the caller's ISA predicate is dropped.
StoredIsapDropCaller(r, isap, h) == [p |-> recipes[r].isap, heap |-> h]

\* Line 282: the stored ISA predicate.
StoredIsap(r, isap, h) == AndCombine(recipes[r].isap, isap, h)

\* The Encoding object and the And-node heap that a successful
\* Encoding(cpumode, spec, recipe r, encbits, instp, isap) leaves behind.
NewEncoding(m, spec, r, encbits, instp, isap) ==
    LET c1 == CallerInstp(spec, instp, preds)
        c2 == StoredInstp(r, c1.p, c1.heap)
        c3 == StoredIsap(r, isap, c2.heap)
    IN [enc |-> [cpumode |-> m, inst |-> spec.inst, typevars |-> spec.inst.typevars,
                 recipe |-> r, encbits |-> encbits, instp |-> c2.p, isap |-> c3.p],
        heap |-> c3.heap]

-----------------------------------------------------------------------------
(* TargetISA.finish and its three passes *)

RECURSIVE Flat(_)
\* `for cpumode in self.cpumodes: for enc in cpumode.encodings`: the
\* encodings in the order both loops visit them.
Flat(modes) == IF modes = <<>> THEN <<>> ELSE Head(modes) \o Flat(Tail(modes))

\* Faulty variant: the list of the previous call is kept.
KeepRecipes == all_recipes

\* Line 67: self.all_recipes = list()
ResetRecipes == <<>>

\* Faulty variant: the set of seen recipes is not consulted.
RecipeIsNewAlways(r, rcps) == TRUE

\* Line 72: `recipe not in rcps`
RecipeIsNew(r, rcps) == r \notin rcps

\* Faulty variant: the number is taken after the recipe joined the set.
RecipeNumberFromOne(rcps) == Cardinality(rcps) + 1

\* Line 73: recipe.number = len(rcps)
RecipeNumber(rcps) == Cardinality(rcps)

RECURSIVE CollectRecipes(_, _, _)
\* Lines 69-75, from encoding i on.  st: all_recipes, rcps and the recipe heap.
CollectRecipes(encs, i, st) ==
    IF i > Len(encs) THEN st
    ELSE LET r == encs[i].recipe IN
         IF RecipeIsNew(r, st.rcps)
         THEN CollectRecipes(encs, i + 1,
                [all  |-> Append(st.all, r),
                 rcps |-> st.rcps \cup {r},
                 heap |-> [st.heap EXCEPT ![r].number = RecipeNumber(st.rcps)]])
         ELSE CollectRecipes(encs, i + 1, st)

\* Line 88: self.all_instps = list()
ResetInstps == <<>>

\* Faulty variant: the set of seen predicates is not consulted.
InstpIsNewIgnoreSeen(instp, instps) == Truthy(instp)

\* Line 93: `instp and instp not in instps`
InstpIsNew(instp, instps) == Truthy(instp) /\ instp \notin instps

\* Line 95: instp.number = len(instps)
InstpNumber(instps) == Cardinality(instps)

\* Faulty variant: every encoding is taken to carry an ISA predicate.
HasIsapAlways(enc) == TRUE

\* Line 102: `if enc.isap:`
HasIsap(enc) == Truthy(enc.isap)

\* SettingGroup.number_predicate(pred): pred gets a number in the group
\* unless it has one.
NumberPredicate(st, pred) ==
    IF pred \in Range(st.predicate_number) THEN st
    ELSE [st EXCEPT !.predicate_number = Append(@, pred)]

RECURSIVE CollectPredicates(_, _, _)
\* Lines 90-103, from encoding i on.  st: all_instps, instps, the numbers
\* of the predicates, self.settings, and the error raised so far.  With
\* self.settings still None, line 103 raises AttributeError and the loop
\* is left where it stands.
CollectPredicates(encs, i, st) ==
    IF i > Len(encs) \/ st.err # "none" THEN st
    ELSE LET instp == encs[i].instp
             s1 == IF InstpIsNew(instp, st.instps)
                   THEN [st EXCEPT !.all = Append(@, instp),
                                   !.instps = @ \cup {instp},
                                   !.num[instp] = InstpNumber(st.instps)]
                   ELSE st
             s2 == IF HasIsap(encs[i])
                   THEN IF s1.settings.none
                        THEN [s1 EXCEPT !.err = "AttributeError"]
                        ELSE [s1 EXCEPT !.settings = NumberPredicate(@, encs[i].isap)]
                   ELSE s1
         IN CollectPredicates(encs, i + 1, s2)

\* RegBank.finish_regclasses(first_index): the bank's classes get the
\* indices first_index, first_index + 1, ... in declaration order.
FinishRegclasses(bank, first_index) ==
    [first_index |-> first_index,
     classes |-> [k \in 1..Len(bank.classes) |-> first_index + k - 1]]

\* Faulty variant: the index advances by one per bank.
NextRcIndexByOne(rc_index, bank) == rc_index + 1

\* Line 116: rc_index += len(bank.classes)
NextRcIndex(rc_index, bank) == rc_index + Len(bank.classes)

RECURSIVE CollectRegclasses(_, _, _)
\* Lines 113-116, from bank i on.
CollectRegclasses(banks, i, rc_index) ==
    IF i > Len(banks) THEN banks
    ELSE CollectRegclasses([banks EXCEPT ![i] = FinishRegclasses(@, rc_index)],
                           i + 1, NextRcIndex(rc_index, banks[i]))

-----------------------------------------------------------------------------
(* Initial state: a TargetISA just constructed, no recipe defined yet *)

NoSettings == [none |-> TRUE, predicate_number |-> <<>>]

Init ==
    /\ recipes = <<>>
    /\ preds = <<>>
    /\ prednum = [p \in Atoms |-> Unset]
    /\ cpumodes = <<>>
    /\ regbanks = <<>>
    /\ settings = NoSettings
    /\ all_recipes = <<>>
    /\ all_instps = <<>>
    /\ call = [op |-> "TargetISA"]
    /\ err = "none"

-----------------------------------------------------------------------------
(* Operations *)

NumEncs == Len(Flat(cpumodes))

\* EncRecipe(name, format, size, ins, outs, branch_range, instp, isap)
MakeRecipe(name, format, size, ins, outs, branch_range, instp, isap) ==
    /\ LET e == RecipeError(format, size, ins, outs, instp) IN
       /\ err' = e
       /\ recipes' = IF e = "none"
                     THEN Append(recipes, NewRecipe(name, format, size, ins, outs,
                                                    branch_range, instp, isap))
                     ELSE recipes
    /\ call' = [op |-> "EncRecipe", format |-> format, size |-> size, ins |-> ins,
                outs |-> outs, instp |-> instp]
    /\ UNCHANGED <<preds, prednum, cpumodes, regbanks, settings, all_recipes, all_instps>>

\* CPUMode(name, isa)
MakeMode ==
    /\ cpumodes' = Append(cpumodes, <<>>)
    /\ call' = [op |-> "CPUMode"]
    /\ err' = "none"
    /\ UNCHANGED <<recipes, preds, prednum, regbanks, settings, all_recipes, all_instps>>

\* cpumodes[m].enc(spec, recipes[r], encbits, instp, isap)
Enc(m, spec, r, encbits, instp, isap) ==
    /\ m \in 1..Len(cpumodes)
    /\ r \in 1..Len(recipes)
    /\ LET e == EncodingError(spec.inst, recipes[r])
           n == NewEncoding(m, spec, r, encbits, instp, isap)
       IN /\ err' = e
          /\ IF e = "none"
             THEN /\ cpumodes' = [cpumodes EXCEPT ![m] = Append(@, n.enc)]
                  /\ preds' = n.heap
                  /\ prednum' = [p \in 1..(NumAtoms + Len(n.heap)) |->
                                   IF p \in DOMAIN prednum THEN prednum[p] ELSE Unset]
             ELSE UNCHANGED <<cpumodes, preds, prednum>>
    /\ call' = [op |-> "enc", cpumode |-> m, spec |-> spec, recipe |-> r,
                instp |-> instp, isap |-> isap]
    /\ UNCHANGED <<recipes, regbanks, settings, all_recipes, all_instps>>

\* isa.settings = SettingGroup(...)
AssignSettings ==
    /\ settings.none
    /\ settings' = [none |-> FALSE, predicate_number |-> <<>>]
    /\ call' = [op |-> "settings"]
    /\ err' = "none"
    /\ UNCHANGED <<recipes, preds, prednum, cpumodes, regbanks, all_recipes, all_instps>>

\* isa.regbanks gains a bank of n classes, none numbered yet
AddBank(n) ==
    /\ Len(regbanks) < MaxBanks
    /\ regbanks' = Append(regbanks, [first_index |-> Unset,
                                     classes |-> [k \in 1..n |-> Unset]])
    /\ call' = [op |-> "RegBank"]
    /\ err' = "none"
    /\ UNCHANGED <<recipes, preds, prednum, cpumodes, settings, all_recipes, all_instps>>

\* The state TargetISA.finish() leaves behind, starting from the recipe
\* heap rs, the predicate numbers pn, the settings st and the banks bs.
FinishFrom(rs, pn, st, bs, all0, instps0) ==
    LET encs == Flat(cpumodes)
        s1 == CollectRecipes(encs, 1, [all |-> all0, rcps |-> {}, heap |-> rs])
        s2 == CollectPredicates(encs, 1,
                [all |-> instps0, instps |-> {}, num |-> pn,
                 settings |-> st, err |-> "none"])
    IN [recipes |-> s1.heap, all_recipes |-> s1.all,
        all_instps |-> s2.all, prednum |-> s2.num, settings |-> s2.settings,
        regbanks |-> IF s2.err = "none" THEN CollectRegclasses(bs, 1, 0) ELSE bs,
        err |-> s2.err]

\* isa.finish()
Finish ==
    LET f == FinishFrom(recipes, prednum, settings, regbanks, ResetRecipes, ResetInstps) IN
    /\ recipes' = f.recipes
    /\ all_recipes' = f.all_recipes
    /\ all_instps' = f.all_instps
    /\ prednum' = f.prednum
    /\ settings' = f.settings
    /\ regbanks' = f.regbanks
    /\ err' = f.err
    /\ call' = [op |-> "finish"]
    /\ UNCHANGED <<preds, cpumodes>>

-----------------------------------------------------------------------------
(* Spec: an ISA is defined and finished, any number of times, in any order *)

NumObjects == Len(recipes) + Len(cpumodes) + NumEncs

DefineRecipe ==
    /\ NumObjects < MaxObjects
    /\ \E p \in {<<NoPred, NoPred>>, <<P1, NoPred>>, <<NoPred, S1>>} :
         MakeRecipe("R", Binary, 4, Tup(<<GPR, GPR>>), Single(IntC(0)), NoRange,
                    p[1], p[2])

DefineMode ==
    /\ NumObjects < MaxObjects
    /\ MakeMode

AddEncoding ==
    /\ NumObjects < MaxObjects
    /\ \E m \in 1..Len(cpumodes), r \in 1..Len(recipes), instp \in {NoPred, P2} :
         Enc(m, Bound(iadd), r, 16, instp, NoPred)

Next == DefineRecipe \/ DefineMode \/ AddEncoding \/ AssignSettings \/ Finish

Spec == Init /\ [][Next]_vars

-----------------------------------------------------------------------------
(* SpecBanks: register banks are added to an ISA, which is finished *)

\* An ISA with no encoding, or one whose only encoding carries the ISA
\* predicate S1 through its recipe.
InitBanks ==
    /\ recipes \in {<<>>, <<NewRecipe("R", Binary, 4, Tup(<<GPR, GPR>>), Tup(<<>>),
                                      NoRange, NoPred, S1)>>}
    /\ preds = <<>>
    /\ prednum = [p \in Atoms |-> Unset]
    /\ cpumodes = IF recipes = <<>> THEN <<>>
                  ELSE <<<<NewEncoding(1, Bound(iadd), 1, 16, NoPred, NoPred).enc>>>>
    /\ regbanks = <<>>
    /\ settings = NoSettings
    /\ all_recipes = <<>>
    /\ all_instps = <<>>
    /\ call = [op |-> "TargetISA"]
    /\ err = "none"

DefineBank ==
    /\ Len(regbanks) < MaxBanks
    /\ \E n \in 0..MaxClasses : AddBank(n)

NextBanks == DefineBank \/ AssignSettings \/ Finish

SpecBanks == InitBanks /\ [][NextBanks]_vars

-----------------------------------------------------------------------------
(* SpecRecipe: EncRecipe is called on arbitrary arguments *)

SeqsUpTo(S, n) == UNION {[1..k -> S] : k \in 0..n}
ConstraintArgs(S, n) == {Tup(q) : q \in SeqsUpTo(S, n)} \cup {Single(c) : c \in S}
InsArgs  == ConstraintArgs({GPR, IntC(0), IntC(1), IntC(2)}, 2)
OutsArgs == ConstraintArgs({R0, Junk, IntC(-1), IntC(0), IntC(2)}, 1)

\* A failed assert ends the definition script: nothing is tried after it.
TryRecipe ==
    /\ err = "none"
    /\ Len(recipes) < MaxTried
    /\ \E format \in {Unary, Binary, Call}, size \in {-1, 0, 4},
          ins \in InsArgs, outs \in OutsArgs, instp \in {NoPred, P1} :
         MakeRecipe("R", format, size, ins, outs, NoRange, instp, NoPred)

NextRecipe == TryRecipe

SpecRecipe == Init /\ [][NextRecipe]_vars

-----------------------------------------------------------------------------
(* SpecEnc: CPUMode.enc is called on arbitrary arguments *)

\* One CPU mode and one recipe, any that EncRecipe accepts.
InitEnc ==
    /\ \E format \in {Binary, Call},
          branch_range \in {NoRange, BranchRange(0, 0), BranchRange(4, 12)},
          instp \in {NoPred, P1}, isap \in {NoPred, S1} :
         /\ RecipeError(format, 4, Tup(<<GPR, GPR>>), Tup(<<>>), instp) = "none"
         /\ recipes = <<NewRecipe("R", format, 4, Tup(<<GPR, GPR>>), Tup(<<>>),
                                   branch_range, instp, isap)>>
    /\ preds = <<>>
    /\ prednum = [p \in Atoms |-> Unset]
    /\ cpumodes = << <<>> >>
    /\ regbanks = <<>>
    /\ settings = NoSettings
    /\ all_recipes = <<>>
    /\ all_instps = <<>>
    /\ call = [op |-> "CPUMode"]
    /\ err = "none"

InstSpecs == {Bound(i) : i \in {iadd, brif, call_, jump}}
                 \cup {Applied(i, p) : i \in {iadd, brif}, p \in {NoPred, Q}}

TryEnc ==
    /\ err = "none"
    /\ NumEncs < MaxTried
    /\ \E spec \in InstSpecs, instp \in {NoPred, P2}, isap \in {NoPred, S2} :
         Enc(1, spec, 1, 16, instp, isap)

NextEnc == TryEnc

SpecEnc == InitEnc /\ [][NextEnc]_vars

-----------------------------------------------------------------------------
(* Vocabulary of the properties *)

\* The places <<m, k>> of the encodings: encoding k of CPU mode m.
Places == UNION {{<<m, k>> : k \in 1..Len(cpumodes[m])} : m \in 1..Len(cpumodes)}
EncAt(a) == cpumodes[a[1]][a[2]]
\* a is scanned before b: earlier mode, or same mode and inserted earlier.
Before(a, b) == a[1] < b[1] \/ (a[1] = b[1] /\ a[2] < b[2])

UsedRecipes == {EncAt(a).recipe : a \in Places}
UsedInstps == {EncAt(a).instp : a \in Places} \ {NoPred}
UsesIsap == \E a \in Places : EncAt(a).isap # NoPred

FirstRecipeUse(r) ==
    CHOOSE a \in Places : /\ EncAt(a).recipe = r
                          /\ \A b \in Places : EncAt(b).recipe = r => ~Before(b, a)
FirstInstpUse(p) ==
    CHOOSE a \in Places : /\ EncAt(a).instp = p
                          /\ \A b \in Places : EncAt(b).instp = p => ~Before(b, a)

Occurrences(q, x) == Cardinality({i \in 1..Len(q) : q[i] = x})

Finished == call.op = "finish"
FinishedOK == call.op = "finish" /\ err = "none"

-----------------------------------------------------------------------------
(* C1 *)

\* C1: after finish(), every recipe referenced by at least one encoding
\* appears in all_recipes exactly once, however many encodings and CPU
\* modes reference it.
C1_RecipeOnce ==
    Finished => \A r \in UsedRecipes : Occurrences(all_recipes, r) = 1

\* finish() has run on an ISA where two encodings in different CPU modes
\* share one recipe.
C1_Witness ==
    /\ FinishedOK
    /\ \E a, b \in Places : a[1] # b[1] /\ EncAt(a).recipe = EncAt(b).recipe

-----------------------------------------------------------------------------
(* C2 *)

\* C2: after finish(), all_recipes lists exactly the referenced recipes,
\* all_recipes[i].number == i counting from 0, in first-seen order (CPU
\* modes in ISA order, encodings in insertion order), and an unreferenced
\* recipe is absent from the list and has no number.
C2_RecipeNumbers ==
    Finished =>
      /\ Len(all_recipes) = Cardinality(UsedRecipes)
      /\ Range(all_recipes) = UsedRecipes
      /\ \A i \in 1..Len(all_recipes) : recipes[all_recipes[i]].number = i - 1
      /\ \A i, j \in 1..Len(all_recipes) :
            i < j => Before(FirstRecipeUse(all_recipes[i]), FirstRecipeUse(all_recipes[j]))
      /\ \A r \in (1..Len(recipes)) \ UsedRecipes :
            r \notin Range(all_recipes) /\ recipes[r].number = Unset

\* finish() has run with an unreferenced recipe defined, and the first-seen
\* order of the referenced ones is not the order they were constructed in.
C2_Witness ==
    /\ FinishedOK
    /\ (1..Len(recipes)) \ UsedRecipes # {}
    /\ Len(all_recipes) >= 2
    /\ all_recipes[1] > all_recipes[2]

-----------------------------------------------------------------------------
(* C3 *)

\* C3: after finish(), all_instps lists each instruction predicate carried
\* by an encoding once, all_instps[j].number == j counting from 0, in
\* first-use order; encodings without instruction predicate contribute
\* nothing, and the numbering does not depend on the recipes' numbering.
C3_InstpNumbers ==
    FinishedOK =>
      /\ Len(all_instps) = Cardinality(UsedInstps)
      /\ Range(all_instps) = UsedInstps
      /\ \A j \in 1..Len(all_instps) : prednum[all_instps[j]] = j - 1
      /\ \A i, j \in 1..Len(all_instps) :
            i < j => Before(FirstInstpUse(all_instps[i]), FirstInstpUse(all_instps[j]))

\* finish() has run on encodings of which one has no instruction
\* predicate and two share one, with more predicates than recipes in use.
C3_Witness ==
    /\ FinishedOK
    /\ \E a \in Places : EncAt(a).instp = NoPred
    /\ \E a, b \in Places : a # b /\ EncAt(a).instp = EncAt(b).instp
                                   /\ EncAt(a).instp # NoPred
    /\ Len(all_instps) # Len(all_recipes)
    /\ Len(all_instps) >= 1

-----------------------------------------------------------------------------
(* C4 *)

RECURSIVE ClassesBefore(_)
\* The number of classes in the banks added before bank i.
ClassesBefore(i) == IF i <= 1 THEN 0
                    ELSE ClassesBefore(i - 1) + Len(regbanks[i - 1].classes)

ClassPlaces == UNION {{<<b, k>> : k \in 1..Len(regbanks[b].classes)} :
                         b \in 1..Len(regbanks)}
ClassIndex(a) == regbanks[a[1]].classes[a[2]]

\* C4: finish() hands each bank, in the order the banks were added, the
\* number of classes of the banks before it as start index; so the class
\* indices are unique, fill 0..n-1, and grow with the order of the banks.
C4_RegclassIndices ==
    FinishedOK =>
      /\ \A b \in 1..Len(regbanks) : regbanks[b].first_index = ClassesBefore(b)
      /\ \A a, c \in ClassPlaces : a # c => ClassIndex(a) # ClassIndex(c)
      /\ {ClassIndex(a) : a \in ClassPlaces} = 0..(Cardinality(ClassPlaces) - 1)
      /\ \A a, c \in ClassPlaces : a[1] < c[1] => ClassIndex(a) < ClassIndex(c)

\* finish() has numbered three banks, the first two of two classes each.
C4_Witness ==
    /\ FinishedOK
    /\ Len(regbanks) >= 3
    /\ Len(regbanks[1].classes) = 2
    /\ Len(regbanks[2].classes) = 2
    /\ Len(regbanks[3].classes) >= 1

-----------------------------------------------------------------------------
(* C5 *)

\* C5 as stated: finish() never fails.
C5_NeverFails == Finished => err = "none"

\* C5, amended: finish() fails (AttributeError in predicate collection)
\* exactly when an encoding carries an ISA predicate while the ISA's
\* settings are still None; otherwise none of the three passes fails.
C5_FailsOnlyWithoutSettings ==
    Finished => err = (IF settings.none /\ UsesIsap THEN "AttributeError" ELSE "none")

\* finish() has returned on an ISA with settings where an encoding carries
\* an ISA predicate, which the settings now number.
C5_Witness ==
    /\ FinishedOK
    /\ UsesIsap
    /\ ~settings.none
    /\ settings.predicate_number = <<S1>>

-----------------------------------------------------------------------------
(* C6 *)

CallInst == call.spec.inst
CallRecipe == recipes[call.recipe]

\* C6: an enc() call whose instruction format differs from its recipe's
\* fails with FormatMismatchError and leaves the mode's encoding list as it
\* was; so every encoding of every mode has inst.format == recipe.format.
C6_FormatMismatch ==
    [][ call'.op = "enc" =>
          /\ (CallInst'.format # CallRecipe'.format =>
                 err' = "FormatMismatchError" /\ cpumodes' = cpumodes)
          /\ \A m \in 1..Len(cpumodes') : \A k \in 1..Len(cpumodes'[m]) :
                 cpumodes'[m][k].inst.format = recipes'[cpumodes'[m][k].recipe].format
      ]_vars

\* enc() has failed on a Call-format instruction given a Binary recipe.
C6_Witness ==
    /\ call.op = "enc"
    /\ err = "FormatMismatchError"
    /\ CallInst.format = Call
    /\ CallRecipe.format = Binary

-----------------------------------------------------------------------------
(* C7 *)

\* C7 as stated: a branch instruction with a recipe lacking a branch_range
\* fails with BranchRangeError.
C7_AlwaysBranchRangeError ==
    (call.op = "enc" /\ CallInst.is_branch /\ CallRecipe.branch_range.none)
        => err = "BranchRangeError"

\* C7, amended: when the formats match, a branch instruction fails with
\* BranchRangeError if the recipe has no branch_range and passes if it has
\* an (origin, bits) pair; when the formats differ the call fails with
\* FormatMismatchError before the branch check.  Every branch encoding a
\* mode holds has a recipe with a branch_range.
C7_BranchRange ==
    /\ (call.op = "enc" /\ CallInst.is_branch) =>
          err = (IF CallInst.format # CallRecipe.format THEN "FormatMismatchError"
                 ELSE IF CallRecipe.branch_range.none THEN "BranchRangeError"
                 ELSE "none")
    /\ \A a \in Places : EncAt(a).inst.is_branch =>
          ~recipes[EncAt(a).recipe].branch_range.none

\* enc() has accepted a branch instruction whose recipe's branch_range is
\* the pair (0, 0).
C7_Witness ==
    /\ call.op = "enc"
    /\ err = "none"
    /\ CallInst.is_branch
    /\ CallRecipe.branch_range = BranchRange(0, 0)
    /\ \E a \in Places : EncAt(a).inst.is_branch

-----------------------------------------------------------------------------
(* C8 *)

\* The constraints an `ins` / `outs` argument stands for, a single
\* non-tuple constraint counting as a sequence of one.
ArgElems(arg) == IF arg.tuple THEN Range(arg.value) ELSE {arg.value}
ArgLen(arg) == IF arg.tuple THEN Len(arg.value) ELSE 1

TiedInRange(c, format) ==
    c.kind = "int" =>
        c.val >= 0 /\ (format.has_value_list \/ c.val < format.num_value_operands)

\* What C8 requires of a recipe with the given fields.
RecipeWellFormed(format, size, insElems, insLen, outsElems) ==
    /\ size >= 0
    /\ \A c \in insElems \cup outsElems : TiedInRange(c, format)
    /\ format.has_value_list \/ insLen = format.num_value_operands

\* C8: every constructed EncRecipe has size >= 0, tied-operand constraints
\* >= 0 and, for a format without value list, below num_value_operands, and
\* len(ins) == num_value_operands for such a format; a construction whose
\* arguments violate one of these fails and constructs nothing; a single
\* non-tuple constraint is stored as a one-element sequence.
C8_RecipeWellFormed ==
    [][ call'.op = "EncRecipe" =>
          /\ \A r \in 1..Len(recipes') :
                RecipeWellFormed(recipes'[r].format, recipes'[r].size,
                                 Range(recipes'[r].ins), Len(recipes'[r].ins),
                                 Range(recipes'[r].outs))
          /\ ~RecipeWellFormed(call'.format, call'.size, ArgElems(call'.ins),
                               ArgLen(call'.ins), ArgElems(call'.outs))
                => err' # "none" /\ recipes' = recipes
          /\ err' = "none" =>
                /\ Len(recipes') = Len(recipes) + 1
                /\ ~call'.ins.tuple => recipes'[Len(recipes')].ins = <<call'.ins.value>>
                /\ ~call'.outs.tuple => recipes'[Len(recipes')].outs = <<call'.outs.value>>
      ]_vars

\* A recipe of a fixed-arity format has been constructed from a single
\* non-tuple `ins` constraint and a tied `outs` operand.
C8_Witness ==
    /\ call.op = "EncRecipe"
    /\ err = "none"
    /\ ~call.ins.tuple
    /\ ~call.format.has_value_list
    /\ recipes[Len(recipes)].ins = <<GPR>>
    /\ \E c \in Range(recipes[Len(recipes)].outs) : c.kind = "int"

-----------------------------------------------------------------------------
(* C9 *)

IsAndNode(p) == p > NumAtoms

RECURSIVE Term(_)
\* The predicate expression an object of the predicate heap stands for.
Term(p) == IF p = NoPred THEN [k |-> "absent"]
           ELSE IF IsAndNode(p)
                THEN [k |-> "and", l |-> Term(preds[p - NumAtoms][1]),
                                   r |-> Term(preds[p - NumAtoms][2])]
           ELSE [k |-> "leaf", id |-> p]

\* AND of two predicate expressions, an absent one being the identity.
TermAnd(a, b) == IF a.k = "absent" THEN b
                 ELSE IF b.k = "absent" THEN a
                 ELSE [k |-> "and", l |-> a, r |-> b]

LastEnc == cpumodes[call.cpumode][Len(cpumodes[call.cpumode])]
CallImplied == IF call.spec.apply THEN call.spec.implied ELSE NoPred
InstpParts == <<CallRecipe.instp, call.instp, CallImplied>>
IsapParts == <<CallRecipe.isap, call.isap>>
Present(parts) == {i \in DOMAIN parts : parts[i] # NoPred}

\* C9: the stored instp is AND(recipe.instp, AND(caller instp, implied
\* predicate)) and the stored isap is AND(recipe.isap, caller isap), with an
\* absent predicate as identity: absent when every part is absent, and the
\* one present part itself when exactly one is present.
C9_PredicateComposition ==
    (call.op = "enc" /\ err = "none") =>
      /\ Term(LastEnc.instp) =
            TermAnd(Term(CallRecipe.instp), TermAnd(Term(call.instp), Term(CallImplied)))
      /\ Term(LastEnc.isap) = TermAnd(Term(CallRecipe.isap), Term(call.isap))
      /\ (LastEnc.instp = NoPred) = (Present(InstpParts) = {})
      /\ (LastEnc.isap = NoPred) = (Present(IsapParts) = {})
      /\ \A i \in Present(InstpParts) : Present(InstpParts) = {i} =>
                                           LastEnc.instp = InstpParts[i]
      /\ \A i \in Present(IsapParts) : Present(IsapParts) = {i} =>
                                          LastEnc.isap = IsapParts[i]

\* An encoding has been built from an applied instruction with all three
\* instruction predicates and both ISA predicates present.
C9_Witness ==
    /\ call.op = "enc"
    /\ err = "none"
    /\ Present(InstpParts) = {1, 2, 3}
    /\ Present(IsapParts) = {1, 2}
    /\ IsAndNode(LastEnc.instp)
    /\ IsAndNode(LastEnc.isap)

-----------------------------------------------------------------------------
(* C10 *)

\* What finish() derives: both lists and the numbers of all recipes and
\* predicates.
Derived == <<all_recipes, all_instps,
             [r \in 1..Len(recipes) |-> recipes[r].number], prednum>>

\* What one finish() derives from the present definition when nothing has
\* been derived or numbered before.
DerivedAfresh ==
    LET f == FinishFrom([r \in 1..Len(recipes) |-> [recipes[r] EXCEPT !.number = Unset]],
                        [p \in DOMAIN prednum |-> Unset],
                        [settings EXCEPT !.predicate_number = <<>>],
                        regbanks, <<>>, <<>>)
    IN <<f.all_recipes, f.all_instps,
         [r \in 1..Len(recipes) |-> f.recipes[r].number], f.prednum>>

\* What finish() would derive if it were called now.
DerivedAgain ==
    LET f == FinishFrom(recipes, prednum, settings, regbanks, ResetRecipes, ResetInstps)
    IN <<f.all_recipes, f.all_instps,
         [r \in 1..Len(recipes) |-> f.recipes[r].number], f.prednum>>

\* C10: a finish() that returns leaves what a single finish() of the
\* present definition derives from scratch, whatever earlier calls derived
\* (no duplicates, no renumbering); called again with nothing changed in
\* between, it would leave both lists and every number as they are.
C10_FinishIdempotent ==
    FinishedOK => Derived = DerivedAfresh /\ DerivedAgain = Derived

\* finish() has run, and since then an encoding with a recipe not yet in
\* all_recipes and an instruction predicate not yet in all_instps has been
\* added: the lists are stale and finish() can be called again.
C10_Witness ==
    /\ call.op = "enc"
    /\ err = "none"
    /\ all_recipes # <<>>
    /\ all_instps # <<>>
    /\ UsedRecipes \ Range(all_recipes) # {}
    /\ UsedInstps \ Range(all_instps) # {}

=============================================================================
